---- MODULE Spec2Model ----
(***************************************************************************)
(* Model of cron-server/server.js: the odds-fetch pipeline                 *)
(* (fetchAndCacheOdds), the settlement trigger (postSettle), the two       *)
(* manual HTTP trigger endpoints and the two cron jobs.                    *)
(*                                                                         *)
(* JavaScript values of mixed type are tagged records [t |-> ...] so that  *)
(* Array.isArray, typeof and truthiness are computed, not assumed.         *)
(* Indices are 1-based here; the source's loop index i is idx - 1.         *)
(***************************************************************************)
EXTENDS Integers, Sequences, FiniteSets, TLC

\* ---------------------------------------------------------------- bounds
\* Longest events list the provider returns in the model.
MaxEvents == 2

\* ------------------------------------------------------- JavaScript values
JsUndefined == [t |-> "undefined"]
JsNull == [t |-> "null"]
JsStr(s) == [t |-> "string", v |-> s]
JsNum(n) == [t |-> "number", v |-> n]
JsArr(s) == [t |-> "array", v |-> s]
JsObj(o) == [t |-> "object", v |-> o]
\* An inherited Object.prototype member (a function, or the prototype object).
JsInherited == [t |-> "inherited"]

\* Array.isArray(x)
IsArray(x) == x.t = "array"

\* JavaScript truthiness of the values the model uses.
Truthy(x) ==
  CASE x.t = "undefined" -> FALSE
    [] x.t = "null" -> FALSE
    [] x.t = "string" -> x.v # ""
    [] x.t = "number" -> x.v # 0
    [] OTHER -> TRUE

\* x.name where x is an object; undefined when the property is absent.
\* Reading a property of a number or string primitive gives undefined.
Prop(x, name) ==
  IF x.t = "object" /\ name \in DOMAIN x.v THEN x.v[name] ELSE JsUndefined

\* Reading a property of null or undefined throws a TypeError.
PropThrows(x) == x.t \in {"null", "undefined"}

\* String(x || dflt) for x a string, a number or a falsy value.
StringOr(x, dflt) ==
  IF ~Truthy(x) THEN dflt
  ELSE IF x.t = "string" THEN x.v
  ELSE IF x.t = "number" THEN ToString(x.v)
  ELSE "[object Object]"

\* ------------------------------------------------------ market taxonomy
\* The own keys of the marketData literal.
Taxonomy ==
  {"h2h", "totals", "player_shots_on_goal", "player_goals", "player_assists",
   "player_points", "player_goal_scorer_anytime", "player_goal_scorer_first"}

\* Names every object literal inherits from Object.prototype; marketData is a
\* plain literal, so marketData[name] is defined (and truthy) for these too.
ObjectPrototypeKeys ==
  {"constructor", "toString", "valueOf", "hasOwnProperty", "__proto__"}

\* marketData with only the two game markets pre-filled.
EmptyMarketDataGameOnly == [k \in {"h2h", "totals"} |-> <<>>]

\* const marketData = { h2h: [], totals: [], ... }
EmptyMarketData == [k \in Taxonomy |-> <<>>]

\* marketData[marketKey]
MarketSlot(marketData, marketKey) ==
  IF marketKey \in DOMAIN marketData THEN JsArr(marketData[marketKey])
  ELSE IF marketKey \in ObjectPrototypeKeys THEN JsInherited
  ELSE JsUndefined

\* const entry = { bookmaker, selection, description, odds, point, lastUpdated }
\* Prices are integers (hundredths) in the model.
MarketEntry(bookmakerKey, market, outcome) ==
  [bookmaker |-> bookmakerKey,
   selection |-> StringOr(Prop(outcome, "name"), ""),
   description |-> StringOr(Prop(outcome, "description"), ""),
   odds |-> IF Truthy(Prop(outcome, "price")) /\ Prop(outcome, "price").t = "number"
            THEN Prop(outcome, "price").v ELSE 0,
   point |-> IF Prop(outcome, "point").t = "number" THEN Prop(outcome, "point")
             ELSE JsNull,
   lastUpdated |-> StringOr(Prop(market, "last_update"), "")]

\* The outcome of the three nested loops: the assembled marketData, or a
\* TypeError thrown inside them.
Parsed(md) == [threw |-> FALSE, md |-> md]
ParseThrew == [threw |-> TRUE, md |-> EmptyMarketData]

\* PushEntry putting the entry at the head of the list instead of its end.
PushEntryFront(md, marketKey, entry) ==
  LET slot == MarketSlot(md, marketKey) IN
    IF ~Truthy(slot) THEN Parsed(md)
    ELSE IF IsArray(slot) THEN Parsed([md EXCEPT ![marketKey] = <<entry>> \o @])
    ELSE ParseThrew

\* if (marketData[marketKey]) { marketData[marketKey].push(entry); }
\* A truthy slot that is not an array has no push: the call throws.
PushEntry(md, marketKey, entry) ==
  LET slot == MarketSlot(md, marketKey) IN
    IF ~Truthy(slot) THEN Parsed(md)
    ELSE IF IsArray(slot) THEN Parsed([md EXCEPT ![marketKey] = Append(@, entry)])
    ELSE ParseThrew

RECURSIVE OutcomesLoop(_, _, _, _, _, _)
\* for (const outcome of outcomes) { ... }
OutcomesLoop(md, bookmakerKey, market, marketKey, outcomes, k) ==
  IF k > Len(outcomes) THEN Parsed(md)
  ELSE IF PropThrows(outcomes[k]) THEN ParseThrew
  ELSE LET r == PushEntry(md, marketKey, MarketEntry(bookmakerKey, market, outcomes[k])) IN
    IF r.threw THEN ParseThrew
    ELSE OutcomesLoop(r.md, bookmakerKey, market, marketKey, outcomes, k + 1)

RECURSIVE MarketsLoop(_, _, _, _)
\* for (const market of marketsArray) { ... }
MarketsLoop(md, bookmakerKey, marketsArray, k) ==
  IF k > Len(marketsArray) THEN Parsed(md)
  ELSE IF PropThrows(marketsArray[k]) THEN ParseThrew
  ELSE LET market == marketsArray[k]
           marketKey == StringOr(Prop(market, "key"), "")
           outcomes == IF IsArray(Prop(market, "outcomes"))
                       THEN Prop(market, "outcomes").v ELSE <<>>
           r == OutcomesLoop(md, bookmakerKey, market, marketKey, outcomes, 1)
       IN IF r.threw THEN ParseThrew
          ELSE MarketsLoop(r.md, bookmakerKey, marketsArray, k + 1)

\* String(bookmaker.key || bookmaker.title || "unknown")
BookmakerKey(bookmaker) ==
  StringOr(Prop(bookmaker, "key"), StringOr(Prop(bookmaker, "title"), "unknown"))

RECURSIVE BookmakersLoop(_, _, _)
\* for (const bookmaker of bookmakers) { ... }
BookmakersLoop(md, bookmakers, k) ==
  IF k > Len(bookmakers) THEN Parsed(md)
  ELSE IF PropThrows(bookmakers[k]) THEN ParseThrew
  ELSE LET bookmaker == bookmakers[k]
           marketsArray == IF IsArray(Prop(bookmaker, "markets"))
                           THEN Prop(bookmaker, "markets").v ELSE <<>>
           r == MarketsLoop(md, BookmakerKey(bookmaker), marketsArray, 1)
       IN IF r.threw THEN ParseThrew
          ELSE BookmakersLoop(r.md, bookmakers, k + 1)

\* oddsResponse.data || {} ; its bookmaker list, [] unless an array; then the
\* loops over a fresh marketData.
ParseOdds(data) ==
  LET oddsData == IF Truthy(data) THEN data ELSE JsObj(<<>>)
      bookmakers == IF IsArray(Prop(oddsData, "bookmakers"))
                    THEN Prop(oddsData, "bookmakers").v ELSE <<>>
  IN BookmakersLoop(EmptyMarketData, bookmakers, 1)

\* A body whose bookmakers, markets and outcomes are all well-formed objects
\* and lists (used to record what a response carried, not by the pipeline).
WellFormedOdds(data) ==
  /\ IsArray(Prop(data, "bookmakers"))
  /\ \A b \in 1..Len(Prop(data, "bookmakers").v) :
       LET bk == Prop(data, "bookmakers").v[b] IN
         /\ bk.t = "object"
         /\ IsArray(Prop(bk, "markets"))
         /\ \A m \in 1..Len(Prop(bk, "markets").v) :
              LET mk == Prop(bk, "markets").v[m] IN
                /\ mk.t = "object"
                /\ Prop(mk, "key").t = "string"
                /\ IsArray(Prop(mk, "outcomes"))
                /\ \A o \in 1..Len(Prop(mk, "outcomes").v) :
                     Prop(mk, "outcomes").v[o].t = "object"

\* The market keys of a well-formed body that have at least one outcome.
QuotedKeys(data) ==
  UNION {LET markets == Prop(Prop(data, "bookmakers").v[b], "markets").v IN
           {Prop(markets[m], "key").v :
              m \in {n \in 1..Len(markets) : Len(Prop(markets[n], "outcomes").v) > 0}} :
         b \in 1..Len(Prop(data, "bookmakers").v)}

\* The response is well-formed and quotes a market outside the taxonomy.
CarriesOffTaxonomy(data) ==
  WellFormedOdds(data) /\ QuotedKeys(data) \ Taxonomy # {}

\* ------------------------------------------ provider responses (inputs)
Outcome(name, price) == JsObj([name |-> JsStr(name), price |-> JsNum(price)])
OutcomeAt(name, price, point) ==
  JsObj([name |-> JsStr(name), price |-> JsNum(price), point |-> JsNum(point)])
Market(key, outcomes) ==
  JsObj([key |-> JsStr(key), outcomes |-> JsArr(outcomes),
         last_update |-> JsStr("t1")])
Bookmaker(key, markets) == JsObj([key |-> JsStr(key), markets |-> JsArr(markets)])
OddsBody(bookmakers) == JsObj([bookmakers |-> JsArr(bookmakers)])

\* Bodies of the per-event odds response the model draws from.
OddsPayloads ==
  { JsNull,
    JsObj([bookmakers |-> JsStr("n/a")]),
    OddsBody(<<Bookmaker("bk1", <<Market("h2h", <<Outcome("A", 185), Outcome("B", 200)>>),
                                  Market("totals", <<OutcomeAt("Over", 190, 5)>>)>>),
               JsObj([key |-> JsStr("bk0"), markets |-> JsStr("n/a")]),
               Bookmaker("bk2", <<Market("h2h", <<Outcome("A", 180)>>),
                                  JsObj([key |-> JsStr("totals")])>>)>>),
    OddsBody(<<Bookmaker("bk1", <<Market("h2h", <<Outcome("A", 185), Outcome("B", 200)>>),
                                  Market("spreads", <<OutcomeAt("A", 150, 1)>>),
                                  Market("totals", <<OutcomeAt("Over", 190, 5)>>)>>),
               Bookmaker("bk2", <<Market("h2h", <<Outcome("A", 180)>>)>>)>>),
    OddsBody(<<Bookmaker("bk1", <<Market("constructor", <<Outcome("A", 150)>>)>>)>>),
    OddsBody(<<Bookmaker("bk1", <<Market("constructor", <<>>)>>)>>),
    OddsBody(<<JsNull>>) }

\* Event ids the provider uses in the model.
EventIds == {"e1", "e2"}
Event(id) == JsObj([id |-> JsStr(id)])

\* Elements of an events list: an event with an id, an object with no id,
\* and a JSON null.
EventElements == {Event(id) : id \in EventIds} \cup {JsObj(<<>>), JsNull}

RECURSIVE SeqsUpTo(_, _)
\* All sequences over S of length at most n.
SeqsUpTo(S, n) ==
  IF n = 0 THEN {<<>>}
  ELSE LET shorter == SeqsUpTo(S, n - 1) IN
    shorter \cup {Append(s, x) : s \in {t \in shorter : Len(t) = n - 1}, x \in S}

\* The provider gives each event its own id.
DistinctIds(s) ==
  \A j, k \in 1..Len(s) :
    (j # k /\ s[j].t = "object" /\ "id" \in DOMAIN s[j].v) => s[j] # s[k]

\* Bodies of the events response: every list up to MaxEvents, and two bodies
\* that are not lists.
EventsPayloads ==
  {JsArr(s) : s \in {t \in SeqsUpTo(EventElements, MaxEvents) : DistinctIds(t)}}
    \cup {JsNull, JsObj([message |-> JsStr("quota")])}

\* err.message of a rejected events request (timeout, network error, non-2xx).
RequestErrors == {"timeout of 30000ms exceeded", "Request failed with status code 500"}
\* err.message of a rejected odds request.
OddsRequestErrors == {"Request failed with status code 429"}
\* err.message of a rejected docRef.set.
WriteErrors == {"UNAVAILABLE"}
\* err.message of the TypeError raised by reading a property of null or by
\* calling push on a value that has none.
TypeErrorMessage == "TypeError"

\* ------------------------------------------------------------------ state
\* The callers of fetchAndCacheOdds: the daily cron job and the handler of
\* GET /trigger-odds-fetch. Each has at most one run in flight in the model.
Runs == {"cron", "manual"}

VARIABLES
  ODDS_API_KEY,       \* process.env.ODDS_API_KEY || ""
  ODDS_FETCH_SECRET,  \* process.env.ODDS_FETCH_SECRET || ""
  db,                 \* TRUE iff the Firestore client was initialized
  eventsBody,         \* the body the provider's events endpoint serves
  run,                \* run[r]: the activation of fetchAndCacheOdds called by r
  store,              \* odds_cache: document key -> document
  http,               \* the last exchange on GET /trigger-odds-fetch
  SITE_URL,           \* process.env.SITE_URL || "", as a sequence of characters
  SETTLE_SHARED_SECRET, \* process.env.SETTLE_SHARED_SECRET || ""
  settle,             \* the activation of postSettle and its caller
  trigger             \* the last exchange on GET /trigger

vars ==
  <<ODDS_API_KEY, ODDS_FETCH_SECRET, db, eventsBody, run, store, http,
    SITE_URL, SETTLE_SHARED_SECRET, settle, trigger>>

\* What the pipeline and its callers leave alone: the settlement side.
settleVars == <<SITE_URL, SETTLE_SHARED_SECRET, settle, trigger>>
\* What the settlement side leaves alone: the pipeline side.
oddsVars == <<ODDS_API_KEY, ODDS_FETCH_SECRET, db, eventsBody, run, store, http>>

\* Configuration is read once at process start, and the provider serves one
\* events body while the runs of the model last.
config == <<ODDS_API_KEY, ODDS_FETCH_SECRET, db, eventsBody>>

NoResult == [none |-> TRUE]
NoDoc == [none |-> TRUE]
EmptyStore == [k \in {} |-> NoDoc]

\* An activation before it is called. pc is the await the activation is
\* suspended at: "events" (line 95), "odds" (143), "set" (209), "delay" (216);
\* "returned" once it has returned. idx is i + 1. The fields after result
\* record what the activation has done (they are not program state).
IdleRun ==
  [pc |-> "idle", events |-> <<>>, idx |-> 0, results |-> <<>>, errors |-> <<>>,
   cacheDoc |-> NoDoc, result |-> NoResult,
   eventsReqs |-> 0, eventsError |-> "", oddsReqs |-> <<>>, setCalls |-> <<>>,
   skipped |-> <<>>, failed |-> <<>>, undelayed |-> {}, waited |-> FALSE,
   offTaxonomy |-> {}]

\* DocKey without the event id: every event shares one document.
DocKeyShared(eventId) == "nhl_"

\* `nhl_${eventId}`
DocKey(eventId) == "nhl_" \o eventId

\* The cacheDoc literal; lastFetched (the clock) is left out.
CacheDoc(event, eventId, marketData) ==
  [eventId |-> eventId,
   gameId |-> StringOr(Prop(event, "sport_key"), "icehockey_nhl"),
   homeTeam |-> StringOr(Prop(event, "home_team"), ""),
   awayTeam |-> StringOr(Prop(event, "away_team"), ""),
   commenceTime |-> StringOr(Prop(event, "commence_time"), ""),
   markets |-> marketData]

\* docRef.set(cacheDoc, { merge: true }): fields of the write replace those of
\* the stored document, the markets map is merged key by key, and fields the
\* write does not name are kept.
MergeDoc(old, new) ==
  IF old = NoDoc THEN new
  ELSE [f \in DOMAIN old \cup DOMAIN new |->
          IF f \notin DOMAIN new THEN old[f]
          ELSE IF f = "markets" /\ f \in DOMAIN old
            THEN [k \in DOMAIN old[f] \cup DOMAIN new[f] |->
                    IF k \in DOMAIN new[f] THEN new[f][k] ELSE old[f][k]]
          ELSE new[f]]

StoreSet(st, key, doc) ==
  [k \in DOMAIN st \cup {key} |->
     IF k = key THEN MergeDoc(IF key \in DOMAIN st THEN st[key] ELSE NoDoc, doc)
     ELSE st[k]]

\* The elapsed time, ((Date.now() - startTime) / 1000).toFixed(2), is a string
\* whose value the model does not track.
Elapsed == "elapsed"

\* Aggregate counting every element of the list as a success.
AggregateCountAll(rec) ==
  [ok |-> TRUE, count |-> Len(rec.events), errors |-> Len(rec.errors),
   duration |-> Elapsed, results |-> rec.results, errorDetails |-> rec.errors]

\* return { ok: true, count, errors, duration, results, errorDetails }
Aggregate(rec) ==
  [ok |-> TRUE, count |-> Len(rec.results), errors |-> Len(rec.errors),
   duration |-> Elapsed, results |-> rec.results, errorDetails |-> rec.errors]

\* Fatal with the caught error's message lost.
FatalNoMessage(message) == [ok |-> FALSE, error |-> "error", duration |-> Elapsed]

\* The outer catch: return { ok: false, error, duration }
Fatal(message) == [ok |-> FALSE, error |-> message, duration |-> Elapsed]

Return(rec, result) == [rec EXCEPT !.pc = "returned", !.result = result]

\* const eventId = String(event.id || "")
EventIdOf(event) == StringOr(Prop(event, "id"), "")

\* IssueOdds sending the request of the following element along with it.
IssueOddsPrefetch(rec, k) ==
  [rec EXCEPT !.pc = "odds", !.idx = k,
              !.oddsReqs = IF k < Len(rec.events) THEN Append(Append(@, k), k + 1)
                           ELSE Append(@, k),
              !.undelayed = IF rec.oddsReqs # <<>> /\ ~rec.waited
                            THEN @ \cup {k} ELSE @,
              !.waited = FALSE]

\* The request for event k leaves with no delay since the run's previous
\* odds request.
IssueOdds(rec, k) ==
  [rec EXCEPT !.pc = "odds", !.idx = k, !.oddsReqs = Append(@, k),
              !.undelayed = IF rec.oddsReqs # <<>> /\ ~rec.waited
                            THEN @ \cup {k} ELSE @,
              !.waited = FALSE]

RECURSIVE LoopFrom(_, _)
\* The for loop from i = k - 1 up to its next await or return: elements with
\* no id are skipped (continue), reading .id of a null element throws outside
\* the inner try and lands in the outer catch, an element with an id gets its
\* odds request, and past the end the aggregate is returned.
LoopFrom(rec, k) ==
  IF k > Len(rec.events) THEN Return(rec, Aggregate(rec))
  ELSE IF PropThrows(rec.events[k])
    THEN Return([rec EXCEPT !.idx = k], Fatal(TypeErrorMessage))
  ELSE IF EventIdOf(rec.events[k]) = ""
    THEN LoopFrom([rec EXCEPT !.skipped = Append(@, k)], k + 1)
  ELSE IssueOdds(rec, k)

\* The inner catch: errors.push({ eventId, error: errorMsg }), then the next
\* iteration, with no delay.
CatchEvent(rec, message) ==
  LoopFrom([rec EXCEPT
              !.errors = Append(@, [eventId |-> EventIdOf(rec.events[rec.idx]),
                                    error |-> message]),
              !.failed = Append(@, rec.idx),
              !.cacheDoc = NoDoc],
           rec.idx + 1)

\* ------------------------------------------------------- fetchAndCacheOdds
\* Enter without the guard on the Firestore client.
EnterNoDbGuard ==
  IF ODDS_API_KEY = "" THEN Return(IdleRun, [ok |-> FALSE, error |-> "Missing ODDS_API_KEY"])
  ELSE [IdleRun EXCEPT !.pc = "events", !.eventsReqs = 1]

\* The call itself, up to the first await: the two configuration guards, then
\* the events request.
Enter ==
  IF ODDS_API_KEY = "" THEN Return(IdleRun, [ok |-> FALSE, error |-> "Missing ODDS_API_KEY"])
  ELSE IF ~db THEN Return(IdleRun, [ok |-> FALSE, error |-> "Firestore not initialized"])
  ELSE [IdleRun EXCEPT !.pc = "events", !.eventsReqs = 1]

\* Respond answering 200 whatever the result.
RespondAlways200(r, rec, exchange) ==
  IF r = "manual" /\ rec.pc = "returned"
  THEN [status |-> 200, sent |-> exchange.sent + 1]
  ELSE exchange

\* res.status(result.ok ? 200 : 500).json(result), once the manual run
\* returns; exchange is the state of the request's exchange so far.
Respond(r, rec, exchange) ==
  IF r = "manual" /\ rec.pc = "returned"
  THEN [status |-> IF rec.result.ok THEN 200 ELSE 500, sent |-> exchange.sent + 1]
  ELSE exchange

\* Run r moves to rec; the handler answers if that ended the manual run.
Step(r, rec) ==
  /\ run' = [run EXCEPT ![r] = rec]
  /\ http' = Respond(r, rec, http)

\* EventsList taking a body that is not a list as a list of one element.
EventsListWrapped(data) == IF IsArray(data) THEN data.v ELSE <<data>>

\* const events = Array.isArray(eventsResponse.data) ? eventsResponse.data : []
EventsList(data) == IF IsArray(data) THEN data.v ELSE <<>>

\* The events request resolves: eventsResponse.data is the provider's body.
EventsResolve(r) ==
  /\ run[r].pc = "events"
  /\ LET events == EventsList(eventsBody) IN
       IF Len(events) = 0
       THEN Step(r, Return(run[r], [ok |-> TRUE, count |-> 0, message |-> "No events found"]))
       ELSE Step(r, LoopFrom([run[r] EXCEPT !.events = events], 1))
  /\ UNCHANGED <<config, store, settleVars>>

\* The events request rejects (network error, timeout, non-2xx).
EventsReject(r, message) ==
  /\ run[r].pc = "events"
  /\ Step(r, Return([run[r] EXCEPT !.eventsError = message], Fatal(message)))
  /\ UNCHANGED <<config, store, settleVars>>

\* The odds request of the current event resolves with body data: the body is
\* reshaped and the write is issued, or the reshaping throws.
OddsResolve(r, data) ==
  /\ run[r].pc = "odds"
  /\ LET rec == run[r]
         event == rec.events[rec.idx]
         parsed == ParseOdds(data)
         seen == [run[r] EXCEPT !.offTaxonomy =
                    IF CarriesOffTaxonomy(data) THEN @ \cup {run[r].idx} ELSE @] IN
       IF parsed.threw THEN Step(r, CatchEvent(seen, TypeErrorMessage))
       ELSE Step(r, [seen EXCEPT !.pc = "set",
                                !.cacheDoc = CacheDoc(event, EventIdOf(event), parsed.md),
                                !.setCalls = Append(@, rec.idx)])
  /\ UNCHANGED <<config, store, settleVars>>

\* The odds request rejects.
OddsReject(r, message) ==
  /\ run[r].pc = "odds"
  /\ Step(r, CatchEvent(run[r], message))
  /\ UNCHANGED <<config, store, settleVars>>

\* docRef.set resolves: the document is merged into the store, the success is
\* recorded, and the delay starts unless this was the last element.
SetResolve(r) ==
  /\ run[r].pc = "set"
  /\ LET rec == run[r]
         eventId == EventIdOf(rec.events[rec.idx])
         done == [rec EXCEPT !.results = Append(@, [eventId |-> eventId, success |-> TRUE]),
                             !.cacheDoc = NoDoc] IN
       /\ store' = StoreSet(store, DocKey(eventId), rec.cacheDoc)
       /\ IF rec.idx - 1 < Len(rec.events) - 1
          THEN Step(r, [done EXCEPT !.pc = "delay"])
          ELSE Step(r, LoopFrom(done, rec.idx + 1))
  /\ UNCHANGED <<config, settleVars>>

\* docRef.set rejects.
SetReject(r, message) ==
  /\ run[r].pc = "set"
  /\ Step(r, CatchEvent(run[r], message))
  /\ UNCHANGED <<config, store, settleVars>>

\* DelayElapsed with a timer that never resumes the loop.
DelayElapsedStuck(r) ==
  /\ run[r].pc = "delay"
  /\ UNCHANGED vars

\* The 1000 ms timer fires.
DelayElapsed(r) ==
  /\ run[r].pc = "delay"
  /\ Step(r, LoopFrom([run[r] EXCEPT !.waited = TRUE], run[r].idx + 1))
  /\ UNCHANGED <<config, store, settleVars>>

\* ------------------------------------------------------------- callers
\* CronOddsFetch behind an in-flight guard: it starts no run while the manual
\* run is going.
CronOddsFetchExclusive ==
  /\ run["cron"].pc = "idle"
  /\ run["manual"].pc \in {"idle", "returned"}
  /\ run' = [run EXCEPT !["cron"] = Enter]
  /\ UNCHANGED <<config, store, http, settleVars>>

\* The daily cron job calls fetchAndCacheOdds (and logs its result).
CronOddsFetch ==
  /\ run["cron"].pc = "idle"
  /\ run' = [run EXCEPT !["cron"] = Enter]
  /\ UNCHANGED <<config, store, http, settleVars>>

\* Values of req.query.secret and of req.headers["x-odds-fetch-secret"].
QuerySecrets == {JsUndefined, JsStr(""), JsStr("s3cret"), JsStr("wrong")}
HeaderSecrets == {JsUndefined, JsStr("s3cret"), JsStr("wrong")}

\* Provided reading the query parameter only.
ProvidedQueryOnly(query, header) == query

\* const provided = req.query.secret || req.headers["x-odds-fetch-secret"]
Provided(query, header) == IF Truthy(query) THEN query ELSE header

\* if (ODDS_FETCH_SECRET) { if (provided !== ODDS_FETCH_SECRET) return 401 }
Unauthorized(query, header) ==
  /\ ODDS_FETCH_SECRET # ""
  /\ Provided(query, header) # JsStr(ODDS_FETCH_SECRET)

\* GET /trigger-odds-fetch arrives with the given secrets.
TriggerOddsFetch(query, header) ==
  /\ run["manual"].pc = "idle"
  /\ IF Unauthorized(query, header)
     THEN /\ http' = [status |-> 401, sent |-> 1]
          /\ run' = run
     ELSE /\ run' = [run EXCEPT !["manual"] = Enter]
          /\ http' = Respond("manual", Enter, [status |-> 0, sent |-> 0])
  /\ UNCHANGED <<config, store, settleVars>>

\* One activation of fetchAndCacheOdds takes a step.
RunStep(r) ==
  \/ EventsResolve(r)
  \/ \E m \in RequestErrors : EventsReject(r, m)
  \/ \E data \in OddsPayloads : OddsResolve(r, data)
  \/ \E m \in OddsRequestErrors : OddsReject(r, m)
  \/ SetResolve(r)
  \/ \E m \in WriteErrors : SetReject(r, m)
  \/ DelayElapsed(r)

\* -------------------------------------------------------------- postSettle
RECURSIVE StripSlashes(_)
\* SITE_URL.replace(/\/+$/, "")
StripSlashes(url) ==
  IF url # <<>> /\ url[Len(url)] = "/" THEN StripSlashes(SubSeq(url, 1, Len(url) - 1))
  ELSE url

\* `${SITE_URL.replace(/\/+$/, "")}/api/settle-game`
SettleUrl == StripSlashes(SITE_URL) \o <<"/api/settle-game">>

\* SettleBody leaving the game id out.
SettleBodyEmpty(gameId) == "{}"

\* JSON.stringify(gameId ? { gameId: String(gameId) } : {})
SettleBody(gameId) ==
  IF Truthy(gameId) THEN "{\"gameId\":\"" \o StringOr(gameId, "") \o "\"}" ELSE "{}"

NoRequest == [none |-> TRUE]

\* The fetch call: POST, the two headers, the JSON body.
SettleRequest(gameId) ==
  [url |-> SettleUrl, method |-> "POST",
   headers |-> [ContentType |-> "application/json",
                xSettleSecret |-> SETTLE_SHARED_SECRET],
   body |-> SettleBody(gameId)]

\* pc: "jitter" (cron's wait, line 315), "fetch" (255), "text" (263),
\* "returned", "threw" (the promise of postSettle rejected). posts counts the
\* fetch calls; request, status, text and posts record what was sent and
\* received.
IdleSettle ==
  [pc |-> "idle", caller |-> "none", gameId |-> JsUndefined, request |-> NoRequest,
   posts |-> 0, status |-> 0, text |-> "", result |-> NoResult, error |-> ""]

\* postSettle(gameId) up to its first await.
EnterSettle(caller, gameId) ==
  IF SITE_URL = <<>> \/ SETTLE_SHARED_SECRET = ""
  THEN [IdleSettle EXCEPT !.pc = "returned", !.caller = caller, !.gameId = gameId,
          !.result = [ok |-> FALSE, error |-> "Missing SITE_URL or SETTLE_SHARED_SECRET"]]
  ELSE [IdleSettle EXCEPT !.pc = "fetch", !.caller = caller, !.gameId = gameId,
          !.request = SettleRequest(gameId), !.posts = 1]

\* TriggerRespond of a handler with no catch around the call.
TriggerRespondNoCatch(rec) ==
  IF rec.caller = "trigger" /\ rec.pc = "returned"
  THEN [status |-> IF rec.result.ok THEN 200 ELSE 500, sent |-> trigger.sent + 1,
        body |-> rec.result]
  ELSE trigger

\* The /trigger handler's answer once postSettle has returned or thrown:
\* res.status(result.ok ? 200 : 500).json(result), or the catch's 500.
TriggerRespond(rec) ==
  IF rec.caller # "trigger" THEN trigger
  ELSE IF rec.pc = "returned"
    THEN [status |-> IF rec.result.ok THEN 200 ELSE 500, sent |-> trigger.sent + 1,
          body |-> rec.result]
  ELSE IF rec.pc = "threw"
    THEN [status |-> 500, sent |-> trigger.sent + 1,
          body |-> [ok |-> FALSE, error |-> rec.error]]
  ELSE trigger

SettleStep(rec) ==
  /\ settle' = rec
  /\ trigger' = TriggerRespond(rec)
  /\ UNCHANGED <<SITE_URL, SETTLE_SHARED_SECRET, oddsVars>>

\* Values of req.query.gameId.
GameIds == {JsUndefined, JsStr(""), JsStr("42")}

\* GET /trigger?gameId=...: gameId = req.query.gameId ? String(...) : undefined
TriggerSettle(query) ==
  /\ settle.pc = "idle"
  /\ SettleStep(EnterSettle("trigger",
                            IF Truthy(query) THEN JsStr(StringOr(query, "")) ELSE JsUndefined))

\* The settlement cron job fires and starts its jitter wait.
CronSettle ==
  /\ settle.pc = "idle"
  /\ SettleStep([IdleSettle EXCEPT !.pc = "jitter", !.caller = "cron"])

\* The jitter timer fires: postSettle() with no game id.
JitterElapsed ==
  /\ settle.pc = "jitter"
  /\ SettleStep(EnterSettle("cron", JsUndefined))

\* Response statuses of the settlement endpoint, and bodies it sends.
SettleStatuses == {200, 500}
SettleTexts == {"settled", ""}
FetchErrors == {"fetch failed"}

\* fetch resolves with a response of the given status.
FetchResolve(status) ==
  /\ settle.pc = "fetch"
  /\ SettleStep([settle EXCEPT !.pc = "text", !.status = status])

\* fetch rejects: nothing in postSettle catches it.
FetchReject(message) ==
  /\ settle.pc = "fetch"
  /\ SettleStep([settle EXCEPT !.pc = "threw", !.error = message])

\* res.text() resolves: return { ok: res.ok, status: res.status, body: text }
TextResolve(text) ==
  /\ settle.pc = "text"
  /\ SettleStep([settle EXCEPT !.pc = "returned", !.text = text,
                   !.result = [ok |-> settle.status >= 200 /\ settle.status <= 299,
                               status |-> settle.status, body |-> text]])

\* res.text() rejects: nothing in postSettle catches it.
TextReject(message) ==
  /\ settle.pc = "text"
  /\ SettleStep([settle EXCEPT !.pc = "threw", !.error = message])

\* ---------------------------------------------------------- specifications
OddsConfigs ==
  /\ ODDS_API_KEY \in {"", "key"}
  /\ ODDS_FETCH_SECRET \in {"", "s3cret"}
  /\ db \in BOOLEAN
  /\ eventsBody \in EventsPayloads

Idle ==
  /\ run = [r \in Runs |-> IdleRun]
  /\ store = EmptyStore
  /\ http = [status |-> 0, sent |-> 0]
  /\ settle = IdleSettle
  /\ trigger = [status |-> 0, sent |-> 0, body |-> NoResult]

\* The pipeline with both its callers, whose runs may overlap. The pipeline
\* reads nothing of the settlement configuration, which is held at one value.
Init ==
  /\ OddsConfigs
  /\ SITE_URL = <<"h", "/">>
  /\ SETTLE_SHARED_SECRET = "settle-secret"
  /\ Idle

Next ==
  \/ CronOddsFetch
  \/ \E q \in QuerySecrets, h \in HeaderSecrets : TriggerOddsFetch(q, h)
  \/ \E r \in Runs : RunStep(r)

Spec == Init /\ [][Next]_vars

\* Every awaited call of a run (the events request, an odds request, a store
\* write, the delay timer) eventually resolves or rejects: the requests carry
\* timeouts and the timer fires.
AwaitsSettle == \A r \in Runs : WF_vars(RunStep(r))

\* The pipeline with both its callers, every awaited call settling.
SpecLive == Init /\ [][Next]_vars /\ AwaitsSettle

\* The HTTP surface and the settlement trigger: the two manual endpoints, the
\* manual run of the pipeline, and postSettle called by /trigger or by its cron
\* job.
InitSurface ==
  /\ OddsConfigs
  /\ SITE_URL \in {<<>>, <<"h">>, <<"h", "/", "/">>}
  /\ SETTLE_SHARED_SECRET \in {"", "settle-secret"}
  /\ Idle

NextSurface ==
  \/ \E q \in QuerySecrets, h \in HeaderSecrets : TriggerOddsFetch(q, h)
  \/ RunStep("manual")
  \/ \E g \in GameIds : TriggerSettle(g)
  \/ CronSettle
  \/ JitterElapsed
  \/ \E st \in SettleStatuses : FetchResolve(st)
  \/ \E m \in FetchErrors : FetchReject(m)
  \/ \E t \in SettleTexts : TextResolve(t)
  \/ \E m \in FetchErrors : TextReject(m)

SpecSurface == InitSurface /\ [][NextSurface]_vars

\* ------------------------------------------------------------ properties
Range(seq) == {seq[k] : k \in 1..Len(seq)}

\* The element has no usable id: it is not an object, or its id is missing or
\* falsy.
LacksId(e) == e.t # "object" \/ "id" \notin DOMAIN e.v \/ ~Truthy(e.v["id"])

\* The run got its events response (the events request did not fail).
GotEvents(rec) == rec.eventsReqs = 1 /\ rec.eventsError = "" /\ rec.pc # "events"

\* The elements the run has finished with: skipped, failed, or written.
Finished(rec) ==
  Range(rec.skipped) \cup Range(rec.failed)
    \cup {k \in Range(rec.setCalls) : rec.pc # "set" \/ k # rec.idx}

\* C1: in a run over a list in which some event's per-event step failed, the
\* batch is not aborted: once the run has returned, every element of the list
\* has been processed and the returned error count is the number of events whose
\* per-event step failed.
C1_FailureNeverAbortsBatch ==
  \A r \in Runs :
    (run[r].pc = "returned" /\ run[r].failed # <<>>) =>
      /\ Finished(run[r]) = 1..Len(run[r].events)
      /\ "errors" \in DOMAIN run[r].result
      /\ run[r].result.errors = Len(run[r].failed)

\* C2: no odds request of a run is issued without a delay since the run's
\* previous odds request, also when the previous event's step failed.
C2_DelayBetweenOddsRequests == \A r \in Runs : run[r].undelayed = {}

\* C3 as stated: neither entry point ever throws past its boundary.
C3_NeverThrows ==
  /\ \A r \in Runs : run[r].pc # "threw"
  /\ settle.pc # "threw"

\* C3 amended: fetchAndCacheOdds never throws: it returns a result with an ok
\* flag, and a failure outside the per-event loop gives {ok:false, error}
\* carrying the message. postSettle returns {ok:false, error} for missing
\* configuration and {ok, status, body} once the response body is read, but it
\* throws when fetch or the body read rejects: that happens only after the POST
\* was issued, and the /trigger handler then answers 500 {ok:false, error}.
C3_ThrowsOnlyFromSettleFetch ==
  /\ \A r \in Runs :
       /\ run[r].pc \in {"idle", "events", "odds", "set", "delay", "returned"}
       /\ run[r].pc = "returned" =>
            /\ "ok" \in DOMAIN run[r].result
            /\ ~run[r].result.ok => "error" \in DOMAIN run[r].result
            /\ run[r].eventsError # "" =>
                 (~run[r].result.ok /\ run[r].result.error = run[r].eventsError)
  /\ settle.pc = "returned" =>
       /\ "ok" \in DOMAIN settle.result
       /\ settle.posts = 0 => (~settle.result.ok /\ "error" \in DOMAIN settle.result)
       /\ settle.posts = 1 => {"status", "body"} \subseteq DOMAIN settle.result
  /\ settle.pc = "threw" =>
       /\ settle.posts = 1
       /\ settle.error # ""
       /\ settle.caller = "trigger" =>
            trigger = [status |-> 500, sent |-> 1,
                       body |-> [ok |-> FALSE, error |-> settle.error]]

\* C3 witness: postSettle called by /trigger has thrown, and the manual run of
\* the pipeline has returned a failure.
C3_Witness ==
  /\ settle.pc = "threw" /\ settle.caller = "trigger"
  /\ run["manual"].pc = "returned" /\ run["manual"].eventsError # ""

\* C4: with the API key or the store client missing, fetchAndCacheOdds returns
\* {ok:false, error} at once, having issued no request and no write; with the
\* target URL or the shared secret missing, postSettle returns {ok:false, error}
\* at once, having issued no POST.
C4_MissingConfigNoCalls ==
  /\ (ODDS_API_KEY = "" \/ ~db) =>
       /\ store = EmptyStore
       /\ \A r \in Runs :
            /\ run[r].pc \in {"idle", "returned"}
            /\ run[r].eventsReqs = 0 /\ run[r].oddsReqs = <<>> /\ run[r].setCalls = <<>>
            /\ run[r].pc = "returned" =>
                 (~run[r].result.ok /\ DOMAIN run[r].result = {"ok", "error"})
  /\ (SITE_URL = <<>> \/ SETTLE_SHARED_SECRET = "") =>
       /\ settle.pc \in {"idle", "jitter", "returned"}
       /\ settle.posts = 0 /\ settle.request = NoRequest
       /\ settle.pc = "returned" =>
            (~settle.result.ok /\ DOMAIN settle.result = {"ok", "error"})

\* C4 witness: both entry points have returned with their configuration missing
\* (here the store client and the shared secret).
C4_Witness ==
  /\ ODDS_API_KEY # "" /\ ~db /\ run["manual"].pc = "returned"
  /\ SITE_URL # <<>> /\ SETTLE_SHARED_SECRET = "" /\ settle.pc = "returned"

\* C5: when the events request fails, the run has returned {ok:false} with the
\* error's message and the elapsed duration, and has issued no odds request and
\* no write.
C5_EventsFailureAborts ==
  \A r \in Runs :
    run[r].eventsError # "" =>
      /\ run[r].pc = "returned"
      /\ run[r].result =
           [ok |-> FALSE, error |-> run[r].eventsError, duration |-> Elapsed]
      /\ run[r].oddsReqs = <<>> /\ run[r].setCalls = <<>>

\* C5 witness: a run whose events request failed.
C5_Witness == \E r \in Runs : run[r].eventsError # ""

\* C6: when the events body is not a list, or is the empty list, a run that got
\* it returns {ok:true, count:0} with no error, and issues no odds request and
\* no write.
C6_NonListIsEmpty ==
  (~IsArray(eventsBody) \/ eventsBody.v = <<>>) =>
    /\ store = EmptyStore
    /\ \A r \in Runs :
         GotEvents(run[r]) =>
           /\ run[r].pc = "returned"
           /\ run[r].result.ok /\ run[r].result.count = 0
           /\ "error" \notin DOMAIN run[r].result
           /\ run[r].oddsReqs = <<>> /\ run[r].setCalls = <<>>

\* C6 witness: a run has got an events body that is not a list.
C6_Witness == ~IsArray(eventsBody) /\ \E r \in Runs : GotEvents(run[r])

\* C7: every element without an id is skipped, null elements included: once
\* the run over a list has returned, each such element is among the skipped and
\* in neither list, and the run went on to the end of the list.
C7_NoIdSkipped ==
  \A r \in Runs :
    (run[r].pc = "returned" /\ run[r].events # <<>>) =>
      /\ \A k \in 1..Len(run[r].events) :
           LacksId(run[r].events[k]) =>
             (k \in Range(run[r].skipped) /\ k \notin Range(run[r].oddsReqs))
      /\ "count" \in DOMAIN run[r].result

\* C8: an odds response that quotes a market outside the taxonomy, whatever its
\* key, causes no error: the event's document is built and its write issued.
C8_OffTaxonomyDropped ==
  \A r \in Runs :
    \A k \in run[r].offTaxonomy : k \in Range(run[r].setCalls)

\* C9: every Cache Document, stored or about to be written, by either of two
\* overlapping runs, has exactly the eight taxonomy keys in its markets map.
C9_EightMarketKeys ==
  /\ \A key \in DOMAIN store : DOMAIN store[key].markets = Taxonomy
  /\ \A r \in Runs :
       run[r].cacheDoc # NoDoc => DOMAIN run[r].cacheDoc.markets = Taxonomy

\* C9 witness: both runs have written the same document while the other run was
\* still going, and the document has an empty and a non-empty market list.
C9_Witness ==
  /\ \A r \in Runs : run[r].results # <<>> /\ run[r].pc # "returned"
  /\ run["cron"].results[1] = run["manual"].results[1]
  /\ \E key \in DOMAIN store :
       store[key].markets["h2h"] # <<>> /\ store[key].markets["player_goals"] = <<>>

\* The secret a request is judged by: the query parameter unless it is absent
\* or empty, and else the header.
EffectiveSecret(q, h) == IF q = JsUndefined \/ q = JsStr("") THEN h ELSE q

\* C10 as stated: with a secret configured, a request is answered 401 and
\* starts no run unless the query parameter or the header equals the secret,
\* and a request with the right secret in either place starts the pipeline.
C10_SecretInEitherPlace ==
  [][\A q \in QuerySecrets, h \in HeaderSecrets :
       (TriggerOddsFetch(q, h) /\ ODDS_FETCH_SECRET # "") =>
         IF q = JsStr(ODDS_FETCH_SECRET) \/ h = JsStr(ODDS_FETCH_SECRET)
         THEN run'["manual"].pc # "idle"
         ELSE http'.status = 401 /\ run' = run]_vars

\* C10 amended: with a secret configured, a request starts the pipeline if and
\* only if its effective secret (the query parameter when it is non-empty, else
\* the header) equals the configured secret; any other request is answered 401
\* and starts no run. With no secret configured every request starts it.
C10_EffectiveSecretDecides ==
  [][\A q \in QuerySecrets, h \in HeaderSecrets :
       TriggerOddsFetch(q, h) =>
         IF ODDS_FETCH_SECRET = "" \/ EffectiveSecret(q, h) = JsStr(ODDS_FETCH_SECRET)
         THEN run'["manual"].pc # "idle" /\ http'.status # 401
         ELSE http' = [status |-> 401, sent |-> 1] /\ run' = run]_vars

\* C10 witness: with a secret configured, a request was accepted and its run
\* has started.
C10_Witness ==
  /\ ODDS_FETCH_SECRET # ""
  /\ run["manual"].pc = "events"


\* C11: each manual endpoint answers an authorized request exactly once, when
\* the function it called has returned or thrown: 200 for a result with
\* ok:true, 500 for ok:false or a thrown error, and nothing before that; 401
\* is sent only by /trigger-odds-fetch, for a request it refused, with a secret
\* configured.
C11_StatusReflectsResult ==
  /\ run["manual"].pc = "returned" =>
       http = [status |-> IF run["manual"].result.ok THEN 200 ELSE 500, sent |-> 1]
  /\ run["manual"].pc \in {"events", "odds", "set", "delay"} =>
       http = [status |-> 0, sent |-> 0]
  /\ http.status = 401 =>
       (ODDS_FETCH_SECRET # "" /\ run["manual"].pc = "idle" /\ http.sent = 1)
  /\ http.status \in {0, 200, 401, 500} /\ http.sent <= 1
  /\ settle.caller = "trigger" =>
       /\ settle.pc = "returned" =>
            (trigger.sent = 1 /\ trigger.body = settle.result /\
             trigger.status = IF settle.result.ok THEN 200 ELSE 500)
       /\ settle.pc = "threw" => (trigger.sent = 1 /\ trigger.status = 500)
       /\ settle.pc \in {"fetch", "text"} => (trigger.sent = 0 /\ trigger.status = 0)
  /\ trigger.status \in {0, 200, 500} /\ trigger.sent <= 1

\* C11 witness: /trigger-odds-fetch has answered 500 for a run that returned
\* ok:false, and /trigger has answered 200 for a settlement that returned
\* ok:true.
C11_Witness ==
  /\ run["manual"].pc = "returned" /\ ~run["manual"].result.ok /\ http.status = 500
  /\ settle.caller = "trigger" /\ settle.pc = "returned" /\ trigger.status = 200


\* The URL is the fixed settle path under the configured base: SITE_URL without
\* its trailing slashes, then the path.
UnderBase(url) ==
  \E n \in 0..Len(SITE_URL) :
    /\ \A j \in (n + 1)..Len(SITE_URL) : SITE_URL[j] = "/"
    /\ n = 0 \/ SITE_URL[n] # "/"
    /\ url = SubSeq(SITE_URL, 1, n) \o <<"/api/settle-game">>

\* C12: with the base URL and the secret configured, a call of postSettle has
\* issued exactly one POST, to the settle path under the base URL, with header
\* x-settle-secret equal to the configured secret and the body {"gameId": id}
\* for a supplied id and {} otherwise; once it has returned, its result is the
\* response's status, the body text as received, and ok iff the status is 2xx.
C12_OnePostPerCall ==
  (SITE_URL # <<>> /\ SETTLE_SHARED_SECRET # ""
     /\ settle.pc \in {"fetch", "text", "returned", "threw"}) =>
    /\ settle.posts = 1
    /\ settle.request.method = "POST"
    /\ UnderBase(settle.request.url)
    /\ settle.request.headers.xSettleSecret = SETTLE_SHARED_SECRET
    /\ settle.request.body =
         IF settle.gameId = JsUndefined THEN "{}"
         ELSE "{\"gameId\":\"" \o settle.gameId.v \o "\"}"
    /\ settle.pc = "returned" =>
         settle.result = [ok |-> settle.status \in 200..299,
                          status |-> settle.status, body |-> settle.text]

\* C12 witness: postSettle("42") behind a base URL with trailing slashes has
\* sent the body {"gameId":"42"} and returned a 500 response as received.
C12_Witness ==
  /\ SITE_URL = <<"h", "/", "/">> /\ SETTLE_SHARED_SECRET # ""
  /\ settle.pc = "returned"
  /\ settle.request.url = <<"h", "/api/settle-game">>
  /\ settle.request.body = "{\"gameId\":\"42\"}"
  /\ settle.result = [ok |-> FALSE, status |-> 500, body |-> "settled"]


StrictlyIncreasing(seq) == \A j, k \in 1..Len(seq) : j < k => seq[j] < seq[k]

\* The elements whose success the run has recorded.
Succeeded(rec) ==
  {k \in Range(rec.setCalls) :
     \E j \in 1..Len(rec.results) : rec.results[j].eventId = EventIdOf(rec.events[k])}

\* Calls of the run that were issued and have not completed: the events
\* request, odds requests, store writes.
EventsInFlight(rec) ==
  IF rec.eventsReqs = 1 /\ rec.eventsError = "" /\ rec.events = <<>>
     /\ rec.result = NoResult
  THEN 1 ELSE 0
OddsInFlight(rec) ==
  Cardinality(Range(rec.oddsReqs) \ (Range(rec.failed) \cup Range(rec.setCalls)))
WritesInFlight(rec) ==
  Cardinality(Range(rec.setCalls) \ (Range(rec.failed) \cup Succeeded(rec)))

\* C13: in each run the odds requests and the writes go out in list order, at
\* most one request or write of the run is in flight, and when the request of
\* an element has been issued every earlier element is finished: skipped,
\* recorded as failed, or recorded as written.
C13_SequentialInListOrder ==
  \A r \in Runs :
    /\ StrictlyIncreasing(run[r].oddsReqs)
    /\ StrictlyIncreasing(run[r].setCalls)
    /\ Range(run[r].setCalls) \subseteq Range(run[r].oddsReqs)
    /\ EventsInFlight(run[r]) + OddsInFlight(run[r]) + WritesInFlight(run[r]) <= 1
    /\ \A k \in Range(run[r].oddsReqs) :
         \A i \in 1..(k - 1) :
           i \in Range(run[r].skipped) \cup Range(run[r].failed) \cup Succeeded(run[r])

\* C13 witness: a run is waiting for the odds of its second event after the
\* first was written.
C13_Witness ==
  \E r \in Runs :
    /\ run[r].pc = "odds" /\ run[r].oddsReqs = <<1, 2>>
    /\ Succeeded(run[r]) = {1} /\ OddsInFlight(run[r]) = 1


\* C14: nothing makes one run wait for another. Whatever the other run is
\* doing, the cron job can start its run and an authorized request can start
\* the manual run, and a run's pending odds response or write can complete: so
\* when both runs have a write pending for the same document, either write can
\* land first.
C14_NoMutualExclusion ==
  /\ run["cron"].pc = "idle" => ENABLED CronOddsFetch
  /\ run["manual"].pc = "idle" =>
       ENABLED (/\ TriggerOddsFetch(JsStr(ODDS_FETCH_SECRET), JsUndefined)
                /\ run'["manual"].pc # "idle")
  /\ \A r \in Runs :
       /\ run[r].pc = "odds" => ENABLED (\E data \in OddsPayloads : OddsResolve(r, data))
       /\ run[r].pc = "set" => ENABLED SetResolve(r)

\* C14 witness: the cron run and the manual run are both in flight, each with
\* a write pending for the document of the same event, the two documents
\* differing.
C14_Witness ==
  /\ \A r \in Runs : run[r].pc = "set"
  /\ EventIdOf(run["cron"].events[run["cron"].idx])
       = EventIdOf(run["manual"].events[run["manual"].idx])
  /\ run["cron"].cacheDoc # run["manual"].cacheDoc


\* The list under name of a response part, empty when the part is no object
\* or the value under name is no list.
ListOf(x, name) ==
  IF x.t = "object" /\ name \in DOMAIN x.v /\ x.v[name].t = "array"
  THEN x.v[name].v ELSE <<>>

\* The positions <<b, m, o>> of the outcomes a response quotes under key.
QuotesOf(data, key) ==
  {<<b, m, o>> \in (1..4) \X (1..4) \X (1..4) :
     /\ b <= Len(ListOf(data, "bookmakers"))
     /\ m <= Len(ListOf(ListOf(data, "bookmakers")[b], "markets"))
     /\ Prop(ListOf(ListOf(data, "bookmakers")[b], "markets")[m], "key") = JsStr(key)
     /\ o <= Len(ListOf(ListOf(ListOf(data, "bookmakers")[b], "markets")[m], "outcomes"))}

\* The provider's order of two positions.
Precedes(p, q) ==
  \/ p[1] < q[1]
  \/ p[1] = q[1] /\ p[2] < q[2]
  \/ p[1] = q[1] /\ p[2] = q[2] /\ p[3] < q[3]

\* The Market Entry of the outcome at a position.
EntryAt(data, p) ==
  LET bookmaker == ListOf(data, "bookmakers")[p[1]]
      market == ListOf(bookmaker, "markets")[p[2]]
      outcome == ListOf(market, "outcomes")[p[3]] IN
    [MarketEntry(BookmakerKey(bookmaker), market, outcome) EXCEPT
       !.point = IF outcome.t = "object" /\ "point" \in DOMAIN outcome.v
                    /\ outcome.v["point"].t = "number"
                 THEN outcome.v["point"] ELSE JsNull]

\* The entries of the outcomes quoted under key, in the provider's order.
ExpectedList(data, key) ==
  LET quotes == QuotesOf(data, key) IN
    [k \in 1..Cardinality(quotes) |->
       EntryAt(data, CHOOSE p \in quotes :
                       Cardinality({q \in quotes : Precedes(q, p)}) = k - 1)]

\* C15: whenever an odds response is reshaped into a Cache Document, the list
\* under each taxonomy key holds one entry per outcome quoted under that key,
\* in the provider's order (bookmakers, then markets, then outcomes), with a
\* null point where the outcome has no numeric one; a list that is missing or
\* malformed counts as empty.
C15_ListsInProviderOrder ==
  [][\A r \in Runs : \A data \in OddsPayloads :
       (OddsResolve(r, data) /\ run'[r].pc = "set") =>
         \A key \in Taxonomy :
           run'[r].cacheDoc.markets[key] = ExpectedList(data, key)]_vars

\* C15 witness: a document is about to be written whose h2h list has entries
\* of two bookmakers, two of them from one market, and whose totals list has
\* an entry with a point.
C15_Witness ==
  \E r \in Runs :
    /\ run[r].pc = "set"
    /\ Len(run[r].cacheDoc.markets["h2h"]) = 3
    /\ run[r].cacheDoc.markets["h2h"][2].bookmaker = "bk1"
    /\ run[r].cacheDoc.markets["h2h"][3].bookmaker = "bk2"
    /\ run[r].cacheDoc.markets["h2h"][1].point = JsNull
    /\ run[r].cacheDoc.markets["totals"][1].point = JsNum(5)


\* The run's errors of elements whose odds request was sent, by cause.
FailedWith(rec, causes) ==
  {rec.failed[j] : j \in {i \in 1..Len(rec.failed) : rec.errors[i].error \in causes}}

\* C16: a recorded success of event id e has its document in the store under
\* nhl_<e>, and every stored document sits under the key of its own event id;
\* an event whose odds request or write failed is in the error list and not in
\* the success list; each element causes at most one odds request and at most
\* one write; no write is issued for an event whose odds request failed; and a
\* step changes the store only at the key of an event whose write is pending.
C16_SuccessAfterUpsert ==
  /\ [](\A r \in Runs :
          /\ \A j \in 1..Len(run[r].results) :
               LET e == run[r].results[j].eventId IN
                 /\ ("nhl_" \o e) \in DOMAIN store
                 /\ store["nhl_" \o e].eventId = e
          /\ \A j \in 1..Len(run[r].failed) :
               LET e == EventIdOf(run[r].events[run[r].failed[j]]) IN
                 /\ run[r].errors[j].eventId = e
                 /\ \A i \in 1..Len(run[r].results) : run[r].results[i].eventId # e
          /\ Len(run[r].errors) = Len(run[r].failed)
          /\ StrictlyIncreasing(run[r].oddsReqs)
          /\ StrictlyIncreasing(run[r].setCalls)
          /\ Range(run[r].setCalls) \subseteq Range(run[r].oddsReqs)
          /\ FailedWith(run[r], OddsRequestErrors \cup {TypeErrorMessage})
               \cap Range(run[r].setCalls) = {}
          /\ FailedWith(run[r], WriteErrors) \subseteq Range(run[r].setCalls))
  /\ [](\A key \in DOMAIN store : key = "nhl_" \o store[key].eventId)
  /\ [][\A key \in DOMAIN store' :
          (key \notin DOMAIN store \/ store'[key] # store[key]) =>
            \E r \in Runs :
              /\ run[r].pc = "set"
              /\ key = "nhl_" \o EventIdOf(run[r].events[run[r].idx])
              /\ Len(run'[r].results) = Len(run[r].results) + 1]_vars

\* C16 witness: a run has recorded one success, one failed odds request and
\* the other run a failed write, with one document stored.
C16_Witness ==
  \E r, s \in Runs :
    /\ Len(run[r].results) = 1
    /\ FailedWith(run[r], OddsRequestErrors) # {}
    /\ FailedWith(run[s], WriteErrors) # {}
    /\ Cardinality(DOMAIN store) = 1


\* The run went through its whole loop and returned the aggregate result.
CompletedLoop(rec) ==
  rec.pc = "returned" /\ rec.events # <<>> /\ "errors" \in DOMAIN rec.result

\* The elements whose document the run has merged into the store.
Upserted(rec) ==
  {k \in Range(rec.setCalls) : k \notin Range(rec.failed) /\ (rec.pc = "set" => k # rec.idx)}

\* C17: when a run has completed its loop over a non-empty list, every element
\* is in exactly one of the groups success, error, skipped; the returned count
\* is the number of elements whose document was upserted, and count, errors and
\* the number of skipped elements add up to the length of the list.
C17_ThreeGroupsPartition ==
  \A r \in Runs :
    CompletedLoop(run[r]) =>
      LET rec == run[r]
          ok == Succeeded(rec)
          bad == Range(rec.failed)
          skip == Range(rec.skipped) IN
        /\ ok \cup bad \cup skip = 1..Len(rec.events)
        /\ ok \cap bad = {} /\ ok \cap skip = {} /\ bad \cap skip = {}
        /\ rec.result.count = Cardinality(Upserted(rec))
        /\ rec.result.count = Cardinality(ok)
        /\ rec.result.errors = Cardinality(bad)
        /\ Cardinality(skip) = Len(rec.skipped)
        /\ rec.result.count + rec.result.errors + Len(rec.skipped) = Len(rec.events)

\* C17 witness: two completed loops over a list of an event and an element
\* with no id, one run with a success and the other with an error.
C17_Witness ==
  /\ \A r \in Runs : CompletedLoop(run[r]) /\ Len(run[r].events) = 2
                       /\ Len(run[r].skipped) = 1
  /\ \E r \in Runs : run[r].result.count = 1 /\ run[r].result.errors = 0
  /\ \E r \in Runs : run[r].result.count = 0 /\ run[r].result.errors = 1


\* C18: the success flag follows the events fetch alone. A run whose events
\* request succeeded returns ok:true whatever became of its events, and the
\* manual trigger then answers 200; a run returns ok:false only when the
\* configuration is missing or the events request failed.
C18_OkFollowsEventsFetch ==
  \A r \in Runs :
    run[r].pc = "returned" =>
      /\ GotEvents(run[r]) =>
           /\ run[r].result.ok
           /\ r = "manual" => http.status = 200
      /\ ~run[r].result.ok =>
           \/ ODDS_API_KEY = "" \/ ~db
           \/ run[r].eventsError # ""


\* The run was called and has not returned.
Running(rec) == rec.pc \in {"events", "odds", "set", "delay"}

\* C19: provided every awaited call settles, a run that was called returns a
\* result. A run sends at most one events request and at most one odds request
\* per element of its list, and its position in the list never moves back.
C19_RunTerminates ==
  /\ \A r \in Runs :
       Running(run[r]) ~> (run[r].pc = "returned" /\ run[r].result # NoResult)
  /\ [](\A r \in Runs :
          /\ run[r].eventsReqs <= 1
          /\ StrictlyIncreasing(run[r].oddsReqs)
          /\ Range(run[r].oddsReqs) \subseteq 1..Len(run[r].events)
          /\ run[r].pc = "returned" => run[r].result # NoResult)
  /\ [][\A r \in Runs :
          /\ run'[r].idx >= run[r].idx
          /\ run[r].pc = "returned" => run'[r] = run[r]]_vars

\* C19 witness: both runs have returned, one of them after two odds requests
\* and a delay between them.
C19_Witness ==
  /\ \A r \in Runs : run[r].pc = "returned" /\ run[r].eventsReqs = 1
  /\ \E r \in Runs : run[r].oddsReqs = <<1, 2>> /\ run[r].undelayed = {}

====
